---- MODULE Spec2Model ----
(***************************************************************************)
(* SuggestService (suggest.go): a fluent request builder for the _suggest  *)
(* endpoint and the decoder of its response.                               *)
(*                                                                         *)
(* A Go string whose characters matter (a name, an option value, the URL)  *)
(* is modelled as a sequence of one-character strings; Concat turns such a *)
(* sequence into a TLA+ string, for comparison with a literal.             *)
(***************************************************************************)
EXTENDS Integers, Sequences, FiniteSets, TLC

VARIABLES
    pretty,      \* SuggestService.pretty
    debug,       \* SuggestService.debug
    routing,     \* SuggestService.routing
    preference,  \* SuggestService.preference
    indices,     \* SuggestService.indices
    types,       \* SuggestService.types
    suggesters,  \* SuggestService.suggesters
    call,        \* the call made last: its name, its arguments, what it returned
    out,         \* what the last call did, when it was Do
    twin         \* the same Do, same transport, on a builder that differs in debug only

vars == <<pretty, debug, routing, preference, indices, types, suggesters,
          call, out, twin>>

\* ------------------------------------------------------------------ bounds
\* how many index names, type names and suggesters one builder is given in all
MaxItems == 3

\* ------------------------------------------------------------ input values
IndexNames == { <<"i", "d", "x", "1">>, <<"i", "d", "x", "2">> }
TypeNames == { <<"t", "y", "p", "1">>, <<"a", "/", "b">> }
RoutingValues == { <<>>, <<"r", "1">> }
PreferenceValues == { <<>>, <<"a", " ", "b">> }

\* Suggester implementations: a name and the query fragment Source renders.
Suggesters ==
    { [name |-> "s", src |-> 1], [name |-> "s", src |-> 2], [name |-> "t", src |-> 1] }

SeqsUpTo(S, n) == UNION { [1..k -> S] : k \in 0..n }

\* ------------------------------------------------------- string helpers
RECURSIVE Concat(_)
Concat(cs) == IF cs = <<>> THEN "" ELSE Head(cs) \o Concat(Tail(cs))

RECURSIVE Flatten(_)
Flatten(xss) == IF xss = <<>> THEN <<>> ELSE Head(xss) \o Flatten(Tail(xss))

\* strings.Join(parts, sep)
RECURSIVE Join(_, _)
Join(parts, sep) ==
    IF parts = <<>> THEN <<>>
    ELSE IF Len(parts) = 1 THEN Head(parts)
    ELSE Head(parts) \o sep \o Join(Tail(parts), sep)

\* cleanPathString: makes a name safe as one path segment.
EscapePathChar(c) ==
    IF c = "/" THEN <<"%", "2", "F">> ELSE IF c = " " THEN <<"%", "2", "0">> ELSE <<c>>
cleanPathString(name) == Flatten([i \in 1..Len(name) |-> EscapePathChar(name[i])])

\* url.QueryEscape, as url.Values.Encode applies it to keys and values.
QueryEscapeChar(c) ==
    IF c = " " THEN <<"+">> ELSE IF c = "/" THEN <<"%", "2", "F">> ELSE <<c>>
QueryEscape(v) == Flatten([i \in 1..Len(v) |-> QueryEscapeChar(v[i])])

\* --------------------------------------------------------- the builder
Receiver == "s"

Items == Len(indices) + Len(types) + Len(suggesters)

NoRun == [ran |-> FALSE]

Builder ==
    [pretty |-> pretty, debug |-> debug, routing |-> routing,
     preference |-> preference, indices |-> indices, types |-> types,
     suggesters |-> suggesters]

\* NewSuggestService
Init ==
    /\ pretty = FALSE
    /\ debug = FALSE
    /\ routing = <<>>
    /\ preference = <<>>
    /\ indices = <<>>
    /\ types = <<>>
    /\ suggesters = <<>>
    /\ call = [op |-> "NewSuggestService", args |-> <<>>, ret |-> Receiver]
    /\ out = NoRun
    /\ twin = NoRun

Returns(op, args) ==
    /\ call' = [op |-> op, args |-> args, ret |-> Receiver]
    /\ out' = NoRun
    /\ twin' = NoRun

IndexResets ==
    \E index \in IndexNames :
        /\ Items < MaxItems
        /\ indices' = <<index>>
        /\ Returns("Index", <<index>>)
        /\ UNCHANGED <<pretty, debug, routing, preference, types, suggesters>>

Index ==
    \E index \in IndexNames :
        /\ Items < MaxItems
        /\ indices' = Append(indices, index)
        /\ Returns("Index", <<index>>)
        /\ UNCHANGED <<pretty, debug, routing, preference, types, suggesters>>

IndicesOp ==
    \E more \in SeqsUpTo(IndexNames, MaxItems) :
        /\ Items + Len(more) <= MaxItems
        /\ indices' = indices \o more
        /\ Returns("Indices", more)
        /\ UNCHANGED <<pretty, debug, routing, preference, types, suggesters>>

Type ==
    \E typ \in TypeNames :
        /\ Items < MaxItems
        /\ types' = Append(types, typ)
        /\ Returns("Type", <<typ>>)
        /\ UNCHANGED <<pretty, debug, routing, preference, indices, suggesters>>

TypesOp ==
    \E more \in SeqsUpTo(TypeNames, MaxItems) :
        /\ Items + Len(more) <= MaxItems
        /\ types' = types \o more
        /\ Returns("Types", more)
        /\ UNCHANGED <<pretty, debug, routing, preference, indices, suggesters>>

Pretty ==
    \E b \in BOOLEAN :
        /\ pretty' = b
        /\ Returns("Pretty", <<b>>)
        /\ UNCHANGED <<debug, routing, preference, indices, types, suggesters>>

Debug ==
    \E b \in BOOLEAN :
        /\ debug' = b
        /\ Returns("Debug", <<b>>)
        /\ UNCHANGED <<pretty, routing, preference, indices, types, suggesters>>

Routing ==
    \E r \in RoutingValues :
        /\ routing' = r
        /\ Returns("Routing", <<r>>)
        /\ UNCHANGED <<pretty, debug, preference, indices, types, suggesters>>

Preference ==
    \E p \in PreferenceValues :
        /\ preference' = p
        /\ Returns("Preference", <<p>>)
        /\ UNCHANGED <<pretty, debug, routing, indices, types, suggesters>>

Suggester ==
    \E suggester \in Suggesters :
        /\ Items < MaxItems
        /\ suggesters' = Append(suggesters, suggester)
        /\ Returns("Suggester", <<suggester>>)
        /\ UNCHANGED <<pretty, debug, routing, preference, indices, types>>

\* ------------------------------------------------------------ JSON values
\* A JSON value is its type and, for an array, its elements.
JNull == [t |-> "null", v |-> <<>>]
JStr == [t |-> "string", v |-> <<>>]
JNum == [t |-> "number", v |-> <<>>]
JObj == [t |-> "object", v |-> <<>>]
JArr(elems) == [t |-> "array", v |-> elems]

EmptyMap == [k \in {} |-> 0]

\* The zero Suggestion, which an object without the known fields decodes to.
ZeroSuggestion == [text |-> "", offset |-> 0, length |-> 0, options |-> <<>>]

\* json.Unmarshal(raw, &s) with s of type []Suggestion.
UnmarshalSuggestions(raw) ==
    IF raw.t = "array" /\ \A i \in 1..Len(raw.v) : raw.v[i].t = "object"
    THEN [err |-> "", val |-> [i \in 1..Len(raw.v) |-> ZeroSuggestion]]
    ELSE [err |-> "json: cannot unmarshal into []Suggestion", val |-> <<>>]

\* ------------------------------------------------------------- Do: request
\* Suggester.Source(includeName)
Source(suggester, includeName) == [named |-> includeName, src |-> suggester.src]

\* suggest.go 88-91, 95-98
CleanAll(names) == [i \in 1..Len(names) |-> cleanPathString(names[i])]

\* suggest.go 84-102
SuggestEndpoint == <<"/", "_", "s", "u", "g", "g", "e", "s", "t">>

BuildPathSeparated(ix, ty) ==
    <<"/">> \o Join(CleanAll(ix), <<",">>) \o <<"/">>
            \o Join(CleanAll(ty), <<",">>) \o SuggestEndpoint

BuildPath(ix, ty) ==
    <<"/">> \o Join(CleanAll(ix), <<",">>)
            \o Join(CleanAll(ty), <<",">>) \o SuggestEndpoint

\* suggest.go 105-114: url.Values, one value per key
True == <<"t", "r", "u", "e">>
False == <<"f", "a", "l", "s", "e">>
Sprintv(b) == IF b THEN True ELSE False

BuildParamsAlwaysPretty(p, r, pf) ==
    LET keys == {"pretty"}
                \cup (IF r # <<>> THEN {"routing"} ELSE {})
                \cup (IF pf # <<>> THEN {"preference"} ELSE {})
    IN  [k \in keys |-> IF k = "pretty" THEN Sprintv(p)
                        ELSE IF k = "routing" THEN r ELSE pf]

BuildParams(p, r, pf) ==
    LET keys == (IF p THEN {"pretty"} ELSE {})
                \cup (IF r # <<>> THEN {"routing"} ELSE {})
                \cup (IF pf # <<>> THEN {"preference"} ELSE {})
    IN  [k \in keys |-> IF k = "pretty" THEN Sprintv(p)
                        ELSE IF k = "routing" THEN r ELSE pf]

\* url.Values.Encode: key=value pairs, sorted by key, joined by "&"
KeyChars ==
    [preference |-> <<"p", "r", "e", "f", "e", "r", "e", "n", "c", "e">>,
     pretty |-> <<"p", "r", "e", "t", "t", "y">>,
     routing |-> <<"r", "o", "u", "t", "i", "n", "g">>]
SortedKeys == <<"preference", "pretty", "routing">>
Encode(params) ==
    LET used == SelectSeq(SortedKeys, LAMBDA k : k \in DOMAIN params)
        Pair(k) == QueryEscape(KeyChars[k]) \o <<"=">> \o QueryEscape(params[k])
    IN  Join([i \in 1..Len(used) |-> Pair(used[i])], <<"&">>)

\* suggest.go 84-117
BuildURL(s) ==
    LET params == BuildParams(s.pretty, s.routing, s.preference)
    IN  BuildPath(s.indices, s.types)
            \o (IF DOMAIN params # {} THEN <<"?">> \o Encode(params) ELSE <<>>)

\* suggest.go 126-131
RECURSIVE BuildBodyFirstWins(_)
BuildBodyFirstWins(sgs) ==
    IF sgs = <<>> THEN EmptyMap
    ELSE LET rest == BuildBodyFirstWins(Tail(sgs))
             first == Head(sgs)
         IN  [k \in DOMAIN rest \cup {first.name} |->
                 IF k = first.name THEN Source(first, FALSE) ELSE rest[k]]

RECURSIVE BuildBody(_)
BuildBody(sgs) ==
    IF sgs = <<>> THEN EmptyMap
    ELSE LET n == Len(sgs)
             before == BuildBody(SubSeq(sgs, 1, n - 1))
             last == sgs[n]
         IN  [k \in DOMAIN before \cup {last.name} |->
                 IF k = last.name THEN Source(last, FALSE) ELSE before[k]]

\* ------------------------------------------------------------ Do: response
\* What Do returns and what it did on the way.
Outcome(result, err, panic, sent, events, response, closed) ==
    [ran |-> TRUE, result |-> result, err |-> err, panic |-> panic, sent |-> sent,
     events |-> events, response |-> response, closed |-> closed]

Nil == [nil |-> TRUE, m |-> EmptyMap]
Result(m) == [nil |-> FALSE, m |-> m]

\* checkResponse(res)
checkResponse(res) == res.status

\* httputil.DumpResponse(res, true): reads the whole body and puts a copy back;
\* when reading fails it returns the error and leaves res.Body as it is, read.
DumpResponse(stream) ==
    IF stream.readErr THEN [stream EXCEPT !.drained = TRUE] ELSE stream

\* json.NewDecoder(res.Body).Decode(&suggestions), suggestions a
\* map[string]*json.RawMessage: a null value leaves a nil pointer.
Decode(stream) ==
    IF stream.drained
    THEN [err |-> "EOF", raw |-> EmptyMap]
    ELSE IF ~stream.content.isObject
    THEN [err |-> "json: cannot unmarshal into map", raw |-> EmptyMap]
    ELSE [err |-> "", raw |-> stream.content.m]

IsNilPointer(raw) == raw.t = "null"

\* suggest.go 162-173: the keys in the order the map iteration yields them
RECURSIVE DemuxKeepsShards(_, _, _)
DemuxKeepsShards(raw, order, ret) ==
    IF order = <<>> THEN [result |-> Result(ret), err |-> "", panic |-> FALSE]
    ELSE LET name == Head(order)
         IN  IF IsNilPointer(raw[name])
             THEN [result |-> Nil, err |-> "", panic |-> TRUE]
             ELSE LET u == UnmarshalSuggestions(raw[name])
                  IN  IF u.err # ""
                      THEN [result |-> Nil, err |-> u.err, panic |-> FALSE]
                      ELSE DemuxKeepsShards(raw, Tail(order),
                               [k \in DOMAIN ret \cup {name} |->
                                   IF k = name THEN u.val ELSE ret[k]])

RECURSIVE Demux(_, _, _)
Demux(raw, order, ret) ==
    IF order = <<>> THEN [result |-> Result(ret), err |-> "", panic |-> FALSE]
    ELSE LET name == Head(order)
         IN  IF name = "_shards" THEN Demux(raw, Tail(order), ret)
             ELSE IF IsNilPointer(raw[name])
             THEN [result |-> Nil, err |-> "", panic |-> TRUE]
             ELSE LET u == UnmarshalSuggestions(raw[name])
                  IN  IF u.err # ""
                      THEN [result |-> Nil, err |-> u.err, panic |-> FALSE]
                      ELSE Demux(raw, Tail(order),
                               [k \in DOMAIN ret \cup {name} |->
                                   IF k = name THEN u.val ELSE ret[k]])

\* suggest.go 145-173
AfterResponse(s, res, order, sent, ev) ==
    LET checked == ev \o <<"checkResponse">>
        cerr == checkResponse(res)
    IN  IF cerr # ""
        THEN Outcome(Nil, cerr, FALSE, sent, checked, TRUE, FALSE)
        ELSE LET stream0 == [content |-> res.content, readErr |-> res.readErr,
                             drained |-> FALSE]
                 stream == IF s.debug THEN DumpResponse(stream0) ELSE stream0
                 dumped == checked \o (IF s.debug THEN <<"DumpResponse">> ELSE <<>>)
                                   \o <<"Decode">>
                 d == Decode(stream)
             IN  IF d.err # ""
                 THEN Outcome(Nil, d.err, FALSE, sent, dumped \o <<"Close">>, TRUE, TRUE)
                 ELSE LET x == Demux(d.raw, order, EmptyMap)
                      IN  Outcome(x.result, x.err, x.panic, sent,
                                  dumped \o <<"Close">>, TRUE, TRUE)

\* suggest.go 141-147
ExchangeRetries(s, req, env, order, ev) ==
    IF env.doErr # ""
    THEN Outcome(Nil, env.doErr, FALSE, <<req, req>>, ev \o <<"Do", "Do">>, FALSE, FALSE)
    ELSE AfterResponse(s, env.res, order, <<req>>, ev \o <<"Do">>)

Exchange(s, req, env, order, ev) ==
    IF env.doErr # ""
    THEN Outcome(Nil, env.doErr, FALSE, <<req>>, ev \o <<"Do">>, FALSE, FALSE)
    ELSE AfterResponse(s, env.res, order, <<req>>, ev \o <<"Do">>)

\* httputil.DumpRequestOut(req, true): reads the body, which SetBodyJson put
\* in memory, and puts a copy back: the request goes out as it was built.
DumpRequestOut(req) == req

\* suggest.go 83-174
DoRun(s, env, order) ==
    LET urls == BuildURL(s)
    IN  IF env.newReqErr # ""
        THEN Outcome(Nil, env.newReqErr, FALSE, <<>>, <<"NewRequest">>, FALSE, FALSE)
        ELSE LET req == [method |-> "POST", url |-> urls,
                         body |-> BuildBody(s.suggesters)]
                 ev == <<"NewRequest", "SetBodyJson">>
                         \o (IF s.debug THEN <<"DumpRequestOut">> ELSE <<>>)
             IN  Exchange(s, IF s.debug THEN DumpRequestOut(req) ELSE req, env, order, ev)

\* ----------------------------------------------------- transport behaviours
NoContent == [isObject |-> FALSE, m |-> EmptyMap]
NoResponse == [status |-> "", content |-> NoContent, readErr |-> FALSE]

ShardsValues == { JObj, JArr(<<>>), JNum, JNull }
SValues == { JArr(<<>>), JArr(<<JObj>>), JArr(<<JNum>>), JStr, JNum, JObj, JNull }
TValues == { JArr(<<JObj, JObj>>), JStr }

Maps(keys, vals) == UNION { [ks -> vals] : ks \in SUBSET keys }

Glue(f, g) == [k \in DOMAIN f \cup DOMAIN g |-> IF k \in DOMAIN f THEN f[k] ELSE g[k]]

Objects ==
    { Glue(a, Glue(b, c)) : a \in Maps({"_shards"}, ShardsValues),
                            b \in Maps({"s"}, SValues), c \in Maps({"t"}, TValues) }

SomeObject == [isObject |-> TRUE, m |-> [k \in {"_shards", "s"} |->
                                           IF k = "s" THEN JArr(<<JObj>>) ELSE JObj]]

Contents == { NoContent } \cup { [isObject |-> TRUE, m |-> o] : o \in Objects }

\* A body may deliver its object and then fail to read on (a connection cut
\* short of the announced length).
Responses ==
    [status : {""}, content : Contents, readErr : {FALSE}]
    \cup [status : {""}, content : Contents \ {NoContent}, readErr : {TRUE}]
    \cup [status : {"elastic: Error 500"}, content : {NoContent, SomeObject},
          readErr : {FALSE}]

Transport(newReqErr, doErr, res) == [newReqErr |-> newReqErr, doErr |-> doErr, res |-> res]

AllTransports ==
    { Transport("parse error", "", NoResponse), Transport("", "connection refused", NoResponse) }
    \cup { Transport("", "", res) : res \in Responses }

\* The transports the request-side specification runs against.
SendTransports ==
    { Transport("parse error", "", NoResponse), Transport("", "connection refused", NoResponse),
      Transport("", "", [status |-> "", content |-> SomeObject, readErr |-> FALSE]) }

Orders(S) == { o \in [1..Cardinality(S) -> S] : { o[i] : i \in DOMAIN o } = S }

\* Do, against a transport that behaves as one of `transports`
Do(transports) ==
    \E env \in transports :
        \E order \in Orders(DOMAIN env.res.content.m) :
            /\ out' = DoRun(Builder, env, order)
            /\ twin' = DoRun([Builder EXCEPT !.debug = ~debug], env, order)
            /\ call' = [op |-> "Do", args |-> <<env, order>>, ret |-> "result"]
            /\ UNCHANGED <<pretty, debug, routing, preference, indices, types, suggesters>>

DoSend == Do(SendTransports)
DoAny == Do(AllTransports)

Configure ==
    \/ Index \/ IndicesOp \/ Type \/ TypesOp
    \/ Pretty \/ Debug \/ Routing \/ Preference \/ Suggester

\* The builder in full, against a few transports.
Next == Configure \/ DoSend

Spec == Init /\ [][Next]_vars

\* A builder with or without debug, against every transport behaviour.
NextDecode == Debug \/ DoAny

SpecDecode == Init /\ [][NextDecode]_vars

\* ------------------------------------------------ reading a request back
\* The requests the last Do handed to the transport.
Sent == IF out.ran THEN out.sent ELSE <<>>

\* The transport behaviour and the map iteration order the last Do met.
Env == call.args[1]
DidDo == call.op = "Do" /\ out.ran

FirstAt(cs, c) ==
    IF \E i \in 1..Len(cs) : cs[i] = c
    THEN CHOOSE i \in 1..Len(cs) : cs[i] = c /\ \A j \in 1..(i - 1) : cs[j] # c
    ELSE 0

HasQuery(url) == FirstAt(url, "?") # 0
PathOf(url) == IF HasQuery(url) THEN SubSeq(url, 1, FirstAt(url, "?") - 1) ELSE url
QueryOf(url) == IF HasQuery(url) THEN SubSeq(url, FirstAt(url, "?") + 1, Len(url)) ELSE <<>>

RECURSIVE Split(_, _)
Split(cs, sep) ==
    IF FirstAt(cs, sep) = 0 THEN <<cs>>
    ELSE <<SubSeq(cs, 1, FirstAt(cs, sep) - 1)>>
             \o Split(SubSeq(cs, FirstAt(cs, sep) + 1, Len(cs)), sep)

Unplus(c) == IF c = "+" THEN " " ELSE c

\* The key=value pairs of a query string, in the order they stand in it.
Pairs(query) ==
    IF query = <<>> THEN <<>>
    ELSE LET parts == Split(query, "&")
         IN  [i \in 1..Len(parts) |->
                 LET eq == FirstAt(parts[i], "=")
                     escaped == SubSeq(parts[i], eq + 1, Len(parts[i]))
                 IN  [key |-> Concat(SubSeq(parts[i], 1, eq - 1)),
                      value |-> [j \in 1..Len(escaped) |-> Unplus(escaped[j])]]]

RECURSIVE CommaList(_)
CommaList(names) ==
    IF names = <<>> THEN ""
    ELSE IF Len(names) = 1 THEN Concat(cleanPathString(names[1]))
    ELSE Concat(cleanPathString(names[1])) \o "," \o CommaList(Tail(names))

Idx1 == <<"i", "d", "x", "1">>
Idx2 == <<"i", "d", "x", "2">>
Typ1 == <<"t", "y", "p", "1">>
R1 == <<"r", "1">>

\* ---------------------------------------------------------------- claims

\* C1: the path of the URL Do sends is "/", the cleaned index names joined by
\* ",", the cleaned type names joined by ",", with nothing between the two
\* groups, and "/_suggest"; [idx1,idx2] and no type give /idx1,idx2/_suggest,
\* no index and [typ1] give /typ1/_suggest.
C1_PathIsIndicesThenTypes ==
    \A i \in 1..Len(Sent) :
        LET path == Concat(PathOf(Sent[i].url))
        IN  /\ path = "/" \o CommaList(indices) \o CommaList(types) \o "/_suggest"
            /\ (indices = <<Idx1, Idx2>> /\ types = <<>>) => path = "/idx1,idx2/_suggest"
            /\ (indices = <<>> /\ types = <<Typ1>>) => path = "/typ1/_suggest"

C1_Witness ==
    /\ Len(Sent) = 1
    /\ indices = <<Idx1, Idx2>>
    /\ types = <<Typ1>>
    /\ Concat(PathOf(Sent[1].url)) = "/idx1,idx2typ1/_suggest"

\* C2: the URL Do sends has a "?" exactly when pretty is true or routing or
\* preference is non-empty, and its query string holds one parameter for each
\* of those options and no other: pretty=true, routing=<routing>,
\* preference=<preference>; with routing "r1" alone it is "?routing=r1".
C2_QueryIsTheSetOptions ==
    \A i \in 1..Len(Sent) :
        LET url == Sent[i].url
            ps == Pairs(QueryOf(url))
            keys == { ps[j].key : j \in 1..Len(ps) }
        IN  /\ HasQuery(url) <=> (pretty \/ routing # <<>> \/ preference # <<>>)
            /\ HasQuery(url) => QueryOf(url) # <<>>
            /\ Cardinality(keys) = Len(ps)
            /\ "pretty" \in keys <=> pretty
            /\ "routing" \in keys <=> routing # <<>>
            /\ "preference" \in keys <=> preference # <<>>
            /\ keys \subseteq {"pretty", "routing", "preference"}
            /\ \A j \in 1..Len(ps) :
                   ps[j].value = IF ps[j].key = "pretty" THEN True
                                 ELSE IF ps[j].key = "routing" THEN routing
                                 ELSE preference
            /\ (~pretty /\ routing = R1 /\ preference = <<>>)
                   => (HasQuery(url) /\ Concat(QueryOf(url)) = "routing=r1")
            /\ (~pretty /\ routing = <<>> /\ preference = <<>>)
                   => Concat(url) = Concat(PathOf(url))

C2_Witness ==
    /\ Len(Sent) = 1
    /\ pretty /\ routing = R1 /\ preference = <<"a", " ", "b">>
    /\ Concat(QueryOf(Sent[1].url)) = "preference=a+b&pretty=true&routing=r1"

\* C3: the body Do sends has one entry per distinct suggester name, holding
\* Source(false) of the suggester registered last under that name; without
\* suggesters the body is the empty object and the request is sent all the same.
LastNamed(name) ==
    suggesters[CHOOSE i \in 1..Len(suggesters) :
                   /\ suggesters[i].name = name
                   /\ \A j \in (i + 1)..Len(suggesters) : suggesters[j].name # name]

C3_BodyIsLastPerName ==
    /\ \A i \in 1..Len(Sent) :
           LET body == Sent[i].body
           IN  /\ DOMAIN body = { suggesters[j].name : j \in 1..Len(suggesters) }
               /\ \A name \in DOMAIN body :
                      body[name] = [named |-> FALSE, src |-> LastNamed(name).src]
               /\ suggesters = <<>> => body = EmptyMap
    /\ (DidDo /\ suggesters = <<>> /\ Env.newReqErr = "") => Len(Sent) = 1

C3_Witness ==
    /\ Len(Sent) = 1
    /\ suggesters = <<[name |-> "s", src |-> 1], [name |-> "s", src |-> 2]>>
    /\ DOMAIN Sent[1].body = {"s"}
    /\ Sent[1].body["s"].src = 2

\* C4: when the response passes checkResponse, its body reads to the end as a
\* JSON object and every key but "_shards" holds an array of suggestion
\* objects, Do returns without error a result whose keys are the keys of the
\* object without "_shards", whatever "_shards" holds or whether it is there;
\* for {} the result is the empty, non-nil SuggestResult.
IsSuggestionArray(raw) ==
    raw.t = "array" /\ \A i \in 1..Len(raw.v) : raw.v[i].t = "object"

GoodResponse ==
    /\ DidDo
    /\ Env.newReqErr = "" /\ Env.doErr = ""
    /\ Env.res.status = ""
    /\ ~Env.res.readErr
    /\ Env.res.content.isObject

DecodableResponse ==
    /\ GoodResponse
    /\ \A k \in DOMAIN Env.res.content.m \ {"_shards"} :
           IsSuggestionArray(Env.res.content.m[k])

C4_KeysAreResponseKeysButShards ==
    DecodableResponse =>
        /\ out.err = "" /\ ~out.panic
        /\ ~out.result.nil
        /\ DOMAIN out.result.m = DOMAIN Env.res.content.m \ {"_shards"}
        /\ \A k \in DOMAIN out.result.m :
               Len(out.result.m[k]) = Len(Env.res.content.m[k].v)
        /\ Env.res.content.m = EmptyMap => out.result.m = EmptyMap

C4_Witness ==
    /\ DecodableResponse
    /\ debug
    /\ DOMAIN Env.res.content.m = {"_shards", "s", "t"}
    /\ Env.res.content.m["_shards"] = JNum
    /\ DOMAIN out.result.m = {"s", "t"}

\* C5: when a key other than "_shards" of the response object holds anything
\* but an array of suggestion objects (a string, a number, an object, null),
\* Do returns a decode error and a nil result, and ends in no other way.
UndecodableResponse ==
    /\ GoodResponse
    /\ \E k \in DOMAIN Env.res.content.m \ {"_shards"} :
           ~IsSuggestionArray(Env.res.content.m[k])

C5_BadValueIsDecodeError ==
    UndecodableResponse => (out.err # "" /\ out.result.nil /\ ~out.panic)

\* C6: an error of the transport call, or of checkResponse, is the error Do
\* returns, with a nil result and the body never decoded; an error of
\* NewRequest is returned without a transport call; no Do calls the transport
\* twice.
Happened(e) == out.ran /\ \E i \in 1..Len(out.events) : out.events[i] = e

C6_FailuresAreTerminal ==
    DidDo =>
        /\ Len(out.sent) <= 1
        /\ Env.newReqErr # "" =>
               (out.err = Env.newReqErr /\ out.result.nil /\ out.sent = <<>>)
        /\ (Env.newReqErr = "" /\ Env.doErr # "") =>
               (out.err = Env.doErr /\ out.result.nil /\ ~Happened("Decode")
                   /\ Len(out.sent) = 1)
        /\ (Env.newReqErr = "" /\ Env.doErr = "" /\ Env.res.status # "") =>
               (out.err = Env.res.status /\ out.result.nil /\ ~Happened("Decode")
                   /\ Len(out.sent) = 1)

C6_Witness ==
    /\ DidDo
    /\ Env.doErr = "" /\ Env.newReqErr = ""
    /\ Env.res.status # ""
    /\ Env.res.content.isObject
    /\ out.err = "elastic: Error 500"

\* C7: the debug flag changes nothing Do sends or returns: with the same
\* transport behaviour, a builder that differs in debug alone sends the same
\* requests and returns the same result or the same error.
C7_DebugChangesNothing ==
    DidDo =>
        /\ out.sent = twin.sent
        /\ out.result = twin.result
        /\ out.err = twin.err
        /\ out.panic = twin.panic

\* C8: with debug set, Do dumps the request before it calls the transport and
\* dumps every response the transport returns, whatever checkResponse says of
\* it, before decoding it or returning; without debug it dumps nothing.
Position(e) == CHOOSE i \in 1..Len(out.events) : out.events[i] = e

C8_DumpsAroundTransport ==
    DidDo =>
        /\ (debug /\ Happened("Do")) =>
               (Happened("DumpRequestOut") /\ Position("DumpRequestOut") < Position("Do"))
        /\ (debug /\ out.response) =>
               /\ Happened("DumpResponse")
               /\ Position("Do") < Position("DumpResponse")
               /\ Happened("Decode") => Position("DumpResponse") < Position("Decode")
        /\ ~debug => (~Happened("DumpRequestOut") /\ ~Happened("DumpResponse"))

\* C9: a configuration call changes its own field alone, the lists by
\* appending its arguments and the scalars by taking its argument, and returns
\* the builder it was called on; a new builder has empty lists and the default
\* scalars.
ConfigOps ==
    {"Index", "Indices", "Type", "Types", "Pretty", "Debug", "Routing",
     "Preference", "Suggester"}

ConfigStep ==
    call'.op \in ConfigOps =>
        /\ call'.ret = Receiver
        /\ indices' = IF call'.op \in {"Index", "Indices"}
                      THEN indices \o call'.args ELSE indices
        /\ types' = IF call'.op \in {"Type", "Types"} THEN types \o call'.args ELSE types
        /\ suggesters' = IF call'.op = "Suggester"
                         THEN suggesters \o call'.args ELSE suggesters
        /\ pretty' = IF call'.op = "Pretty" THEN call'.args[1] ELSE pretty
        /\ debug' = IF call'.op = "Debug" THEN call'.args[1] ELSE debug
        /\ routing' = IF call'.op = "Routing" THEN call'.args[1] ELSE routing
        /\ preference' = IF call'.op = "Preference" THEN call'.args[1] ELSE preference

NewBuilder ==
    /\ indices = <<>> /\ types = <<>> /\ suggesters = <<>>
    /\ ~pretty /\ ~debug /\ routing = <<>> /\ preference = <<>>

C9_CallsChangeTheirFieldOnly == NewBuilder /\ [][ConfigStep]_vars

C9_Witness ==
    /\ call.op = "Indices"
    /\ call.args = <<Idx2, Idx1>>
    /\ indices = <<Idx1, Idx2, Idx1>>
    /\ pretty /\ routing = R1

\* C10: when the transport returned a response, its body is closed by the
\* time Do returns, whichever way Do returns.
C10_BodyClosedOnReturn ==
    (DidDo /\ out.response) => out.closed
====
